---- MODULE Spec2Model ----
(***************************************************************************)
(* Sandbox lifecycle manager (E2BManager) of the Qbit backend: the         *)
(* in-process sandbox registry, LRU eviction, idle cleanup and the         *)
(* recreation of a sandbox from the stored project files.                  *)
(***************************************************************************)
EXTENDS Integers, Sequences, FiniteSets, TLC

\* ------------------------------------------------------------------------
\* Bounds of the model
\* ------------------------------------------------------------------------
NumProjects == 2
\* E2BManager.max_sandboxes (settings.e2b_max_sandboxes), scaled down
max_sandboxes == 1
\* number of sandboxes the remote provider allocates in one behaviour
MaxAlloc == 3
\* last value of the clock
MaxTime == 1
\* largest number of files stored for one project
MaxFiles == 1
\* largest number of files passed to one direct deploy_files call
MaxDeployFiles == 25
\* number of sandboxes allocated where single lifecycle steps are explored
MaxStepAlloc == 1
\* number of file paths a hot reload may name
MaxPaths == 2

\* ------------------------------------------------------------------------
\* Program constants
\* ------------------------------------------------------------------------
None == 0
\* "/preview/placeholder", the default preview URL of the generation handler
Placeholder == -1
batch_size == 10
sandbox_ttl_minutes == 30
\* the port of the frontend dev server
frontend_port == 3000
\* minutes of wall-clock time per tick of the model clock
MinutesPerTick == 40

\* the timeout of the health poll, in sleep intervals of the poll
PollTimeout == 24
\* the longest a probe takes, in sleep intervals of the poll
MaxProbeTicks == 1
\* coroutines suspended at the same time
MaxTasks == 2

Projects == 1..NumProjects

VARIABLES
    active_sandboxes,   \* project_id -> sandbox handle (dict)
    sandbox_ids,        \* project_id -> sandbox_id (dict)
    sandbox_processes,  \* project_id -> list of processes (dict)
    last_activity,      \* project_id -> timestamp (dict, in insertion order)
    sandbox_metadata,   \* project_id -> metadata (dict)
    terminated,         \* remote provider: handles whose kill() returned
    allocated,          \* remote provider: number of sandboxes created so far
    healthy,            \* remote provider: live handles whose port 3000 answered a probe
    code_files,         \* db.code_files: project_id -> number of documents
    code_blobs,         \* db.code_blobs: project_id -> number of documents
    sandbox_sessions,   \* db.sandbox_sessions: project_id -> session document
    now,                \* datetime.utcnow(), in ticks
    last,               \* the last completed call: operation, result, remote calls
    poll,               \* the locals of the running _wait_for_server_clean call
    tasks               \* the coroutines suspended at an await: position and locals

registry == <<active_sandboxes, sandbox_ids, sandbox_processes, last_activity, sandbox_metadata>>
vars == <<active_sandboxes, sandbox_ids, sandbox_processes, last_activity, sandbox_metadata,
          terminated, allocated, healthy, code_files, code_blobs, sandbox_sessions,
          now, last, poll, tasks>>

\* ------------------------------------------------------------------------
\* Python dict operations
\* ------------------------------------------------------------------------
\* d[k] = v
DictSet(d, k, v) == [x \in (DOMAIN d) \cup {k} |-> IF x = k THEN v ELSE d[x]]
\* d.pop(k, None)
DictPop(d, k) == [x \in (DOMAIN d) \ {k} |-> d[x]]

\* last_activity keeps the insertion order of its keys: a sequence of <<key, value>>
OKeys(d) == {d[i][1] : i \in DOMAIN d}
OGet(d, k) == d[CHOOSE i \in DOMAIN d : d[i][1] = k][2]
OSet(d, k, v) ==
    IF k \in OKeys(d)
    THEN [i \in DOMAIN d |-> IF d[i][1] = k THEN <<k, v>> ELSE d[i]]
    ELSE Append(d, <<k, v>>)
OPop(d, k) == SelectSeq(d, LAMBDA e : e[1] # k)

\* (variant) the key whose value is maximal: the most recently active project
MinKey_picks_latest(d) ==
    LET i == CHOOSE j \in DOMAIN d : \A k \in DOMAIN d : d[j][2] >= d[k][2]
    IN d[i][1]

\* min(self.last_activity, key=self.last_activity.get): the first key, in
\* iteration order, whose value is minimal
MinKey(d) ==
    LET i == CHOOSE j \in DOMAIN d :
                 /\ \A k \in DOMAIN d : d[j][2] <= d[k][2]
                 /\ \A k \in DOMAIN d : k < j => d[k][2] > d[j][2]
    IN d[i][1]

\* ------------------------------------------------------------------------
\* The manager's state as one value, threaded through the methods
\* ------------------------------------------------------------------------
Mgr == [active_sandboxes |-> active_sandboxes,
        sandbox_ids |-> sandbox_ids,
        sandbox_processes |-> sandbox_processes,
        last_activity |-> last_activity,
        sandbox_metadata |-> sandbox_metadata,
        terminated |-> terminated,
        allocated |-> allocated,
        healthy |-> healthy,
        events |-> <<>>]

Emit(m, e) == [m EXCEPT !.events = Append(@, e)]

\* a method's outcome: the manager afterwards, the returned value, raised or not
Return(m, v) == [m |-> m, ret |-> v, raised |-> FALSE]
Raise(m) == [m |-> m, ret |-> None, raised |-> TRUE]

\* (variant) the handler re-raises, as the one of create_sandbox does
ExceptReturnNone_reraises(r) == r

\* except Exception as e: ...; return None   (get_active_sandbox, _recreate_sandbox_from_db)
ExceptReturnNone(r) == IF r.raised THEN Return(r.m, None) ELSE r

\* (variant) the registry entries are dropped whether or not kill() returned
cleanup_sandbox_drops_always(m, project_id, killOk) ==
    IF project_id \in DOMAIN m.active_sandboxes
    THEN LET sandbox == m.active_sandboxes[project_id]
             m1 == Emit(m, <<"kill", sandbox, killOk>>)
         IN [m1 EXCEPT !.terminated = IF killOk THEN @ \cup {sandbox} ELSE @,
                       !.healthy = IF killOk THEN @ \ {sandbox} ELSE @,
                       !.active_sandboxes = DictPop(@, project_id),
                       !.sandbox_ids = DictPop(@, project_id),
                       !.sandbox_processes = DictPop(@, project_id),
                       !.last_activity = OPop(@, project_id),
                       !.sandbox_metadata = DictPop(@, project_id)]
    ELSE m

\* ------------------------------------------------------------------------
\* cleanup_sandbox: kill the remote sandbox, then drop the registry entries;
\* an exception of kill() is logged and leaves the registry as it was
\* ------------------------------------------------------------------------
cleanup_sandbox(m, project_id, killOk) ==
    IF project_id \in DOMAIN m.active_sandboxes
    THEN LET sandbox == m.active_sandboxes[project_id]
             m1 == Emit(m, <<"kill", sandbox, killOk>>)
         IN IF killOk
            THEN [m1 EXCEPT !.terminated = @ \cup {sandbox},
                            !.healthy = @ \ {sandbox},
                            !.active_sandboxes = DictPop(@, project_id),
                            !.sandbox_ids = DictPop(@, project_id),
                            !.sandbox_processes = DictPop(@, project_id),
                            !.last_activity = OPop(@, project_id),
                            !.sandbox_metadata = DictPop(@, project_id)]
            ELSE m1
    ELSE m

\* ------------------------------------------------------------------------
\* _enforce_sandbox_limit: at capacity, clean up the least recently active
\* project; min() of an empty dict raises ValueError
\* ------------------------------------------------------------------------
enforce_sandbox_limit(m, evictOk) ==
    IF Cardinality(DOMAIN m.active_sandboxes) >= max_sandboxes
    THEN IF m.last_activity = <<>>
         THEN Raise(m)
         ELSE LET lru_id == MinKey(m.last_activity)
              IN Return(cleanup_sandbox(Emit(m, <<"evict", lru_id, m.last_activity>>),
                                        lru_id, evictOk), None)
    ELSE Return(m, None)

\* (variant) last_activity is initialised before the sandbox is allocated
create_sandbox_registers_first(m, project_id, t, evictOk, createOk) ==
    LET e == enforce_sandbox_limit(m, evictOk)
        m0 == [e.m EXCEPT !.last_activity = OSet(@, project_id, t)]
    IN IF e.raised
       THEN Raise(e.m)
       ELSE IF ~createOk
            THEN Raise(Emit(m0, <<"create", None>>))
            ELSE LET sandbox == m0.allocated + 1
                     m1 == Emit(m0, <<"create", sandbox>>)
                 IN Return([m1 EXCEPT !.allocated = sandbox,
                                      !.active_sandboxes = DictSet(@, project_id, sandbox),
                                      !.sandbox_ids = DictSet(@, project_id, sandbox),
                                      !.sandbox_processes = DictSet(@, project_id, <<>>),
                                      !.sandbox_metadata = DictSet(@, project_id, "empty")],
                           sandbox)

\* ------------------------------------------------------------------------
\* create_sandbox: enforce the limit, allocate, register; any exception is
\* logged and re-raised
\* ------------------------------------------------------------------------
create_sandbox(m, project_id, t, evictOk, createOk) ==
    LET e == enforce_sandbox_limit(m, evictOk)
    IN IF e.raised
       THEN Raise(e.m)
       ELSE IF ~createOk
            THEN Raise(Emit(e.m, <<"create", None>>))
            ELSE LET sandbox == e.m.allocated + 1
                     m1 == Emit(e.m, <<"create", sandbox>>)
                 IN Return([m1 EXCEPT !.allocated = sandbox,
                                      !.active_sandboxes = DictSet(@, project_id, sandbox),
                                      !.sandbox_ids = DictSet(@, project_id, sandbox),
                                      !.last_activity = OSet(@, project_id, t),
                                      !.sandbox_processes = DictSet(@, project_id, <<>>),
                                      !.sandbox_metadata = DictSet(@, project_id, "empty")],
                           sandbox)

\* ------------------------------------------------------------------------
\* Progress reporting.  ws is the reporter a lifecycle method is called with:
\*   "none"    no websocket_manager / user_id was passed
\*   "ok"      the user is connected and send_json returns
\*   "gone"    the user is not connected
\*   "raises"  the user is connected and send_json raises
\* ------------------------------------------------------------------------
\* a send of this call has already failed, and send_message has disconnected the user
Disconnected(m) ==
    \E i \in DOMAIN m.events : m.events[i][1] = "send" /\ m.events[i][3] = "raised"

\* (variant) an exception of send_json is passed on to the caller
send_message_reraises(m, ws, stage) ==
    IF ws = "gone" \/ Disconnected(m)
    THEN Return(Emit(m, <<"send", stage, "not_connected">>), FALSE)
    ELSE IF ws = "raises"
         THEN Raise(Emit(m, <<"send", stage, "raised">>))
         ELSE Return(Emit(m, <<"send", stage, "sent">>), TRUE)

\* ConnectionManager.send_message: False if the user is not connected; an
\* exception of send_json is logged, the user is disconnected, False is returned
send_message(m, ws, stage) ==
    IF ws = "gone" \/ Disconnected(m)
    THEN Return(Emit(m, <<"send", stage, "not_connected">>), FALSE)
    ELSE IF ws = "raises"
         THEN Return(Emit(m, <<"send", stage, "raised">>), FALSE)
         ELSE Return(Emit(m, <<"send", stage, "sent">>), TRUE)

\* ConnectionManager.send_sandbox_status: build the message, send it
send_sandbox_status(m, ws, stage) == send_message(m, ws, stage)

\* if websocket_manager and user_id: await websocket_manager.send_sandbox_status(...)
report_status(m, ws, stage) ==
    IF ws = "none" THEN Return(m, None) ELSE send_sandbox_status(m, ws, stage)

\* ------------------------------------------------------------------------
\* deploy_files: n files (numbered 1..n in input order) are written in
\* batches of batch_size; the writes of one batch are all issued, then
\* awaited in order; the first failing write is re-raised and aborts the
\* deploy; progress is reported before the first and after every batch.
\* failAt is the number of the first file whose write fails (0: none).
\* ------------------------------------------------------------------------
Min(a, b) == IF a <= b THEN a ELSE b

RECURSIVE EmitAll(_, _, _, _, _)
EmitAll(m, tag, sandbox, from, to) ==
    IF from > to THEN m
    ELSE EmitAll(Emit(m, <<tag, sandbox, from>>), tag, sandbox, from + 1, to)

\* (variant) the files are written as one batch
upload_batches_single_batch(m, sandbox, n, failAt, batch_num, ws) ==
    LET issued == EmitAll(m, "write", sandbox, 1, n)
        progress == report_status(EmitAll(issued, "ack", sandbox, 1, n), ws, "deploying")
    IN IF n = 0 THEN Return(m, None)
       ELSE IF failAt \in 1..n
            THEN Raise(EmitAll(issued, "ack", sandbox, 1, failAt - 1))
            ELSE IF progress.raised THEN Raise(progress.m) ELSE Return(progress.m, None)

RECURSIVE upload_batches(_, _, _, _, _, _)
upload_batches(m, sandbox, n, failAt, batch_num, ws) ==
    LET first == (batch_num - 1) * batch_size + 1
        lastf == Min(n, batch_num * batch_size)
        issued == EmitAll(m, "write", sandbox, first, lastf)
        progress == report_status(EmitAll(issued, "ack", sandbox, first, lastf),
                                  ws, "deploying")
    IN IF first > n
       THEN Return(m, None)
       ELSE IF failAt \in first..lastf
            THEN Raise(EmitAll(issued, "ack", sandbox, first, failAt - 1))
            ELSE IF progress.raised
                 THEN Raise(progress.m)
                 ELSE upload_batches(progress.m, sandbox, n, failAt, batch_num + 1, ws)

\* (variant) a failed deploy terminates the sandbox and drops the project
deploy_files_rolls_back(m, project_id, n, preview_mode, failAt, ws) ==
    IF project_id \notin DOMAIN m.active_sandboxes
    THEN Return(Emit(m, <<"deploy_files", project_id, n, FALSE>>), FALSE)
    ELSE LET sandbox == m.active_sandboxes[project_id]
             started == report_status(m, ws, "deploying")
             m1 == [started.m EXCEPT !.sandbox_metadata = DictSet(@, project_id, preview_mode)]
             u == IF started.raised THEN started
                  ELSE upload_batches(m1, sandbox, n, failAt, 1, ws)
             done == Emit(u.m, <<"deploy_files", project_id, n, ~u.raised>>)
         IN IF u.raised
            THEN Return(cleanup_sandbox(done, project_id, TRUE), FALSE)
            ELSE Return(done, TRUE)

deploy_files(m, project_id, n, preview_mode, failAt, ws) ==
    IF project_id \notin DOMAIN m.active_sandboxes
    THEN Return(Emit(m, <<"deploy_files", project_id, n, FALSE>>), FALSE)
    ELSE LET sandbox == m.active_sandboxes[project_id]
             started == report_status(m, ws, "deploying")
             m1 == [started.m EXCEPT !.sandbox_metadata = DictSet(@, project_id, preview_mode)]
             u == IF started.raised THEN started
                  ELSE upload_batches(m1, sandbox, n, failAt, 1, ws)
         IN Return(Emit(u.m, <<"deploy_files", project_id, n, ~u.raised>>), ~u.raised)

\* inject_package_json: template mode, returns True at once
inject_package_json(m, project_id) == Return(m, TRUE)

\* (variant) the install-from-scratch body: check the manifests, run npm install
install_dependencies_from_scratch(m, project_id, preview_mode) ==
    IF project_id \notin DOMAIN m.active_sandboxes
    THEN Return(Emit(m, <<"install_dependencies", project_id, FALSE>>),
                [success |-> FALSE, frontend_installed |-> FALSE,
                 backend_installed |-> FALSE, ai_installed |-> FALSE])
    ELSE LET sandbox == m.active_sandboxes[project_id]
             m0 == Emit(m, <<"exists", sandbox>>)
             m1 == Emit(m0, <<"run", sandbox, "npm install">>)
         IN Return(Emit(m1, <<"install_dependencies", project_id, TRUE>>),
                   [success |-> TRUE, frontend_installed |-> TRUE,
                    backend_installed |-> FALSE, ai_installed |-> FALSE])

\* install_dependencies: template mode, reports success at once
\* (the install-from-scratch body after the return is unreachable)
install_dependencies(m, project_id, preview_mode) ==
    Return(Emit(m, <<"install_dependencies", project_id, TRUE>>),
           [success |-> TRUE, frontend_installed |-> TRUE,
            backend_installed |-> TRUE, ai_installed |-> TRUE])

\* ------------------------------------------------------------------------
\* start_servers.  s is what the sandbox answers:
\*   exc          the remote call that raises ("none", "exists", "backend",
\*                "ai_services", "frontend")
\*   hasFrontend, hasBackend, hasAi   files.exists of the three directories
\*   ready        result of _wait_for_server_clean on port 3000
\*   hostOk       sandbox.get_host(3000) returns (does not raise)
\* The result carries the key preview_url only on success.
\* ------------------------------------------------------------------------
\* no document in db.sandbox_sessions
NoSession == [status |-> "none", sandbox_id |-> None, preview_url |-> None,
              preview_mode |-> "none"]

StartFailed == [success |-> FALSE, has_url_key |-> FALSE, preview_url |-> None]

\* (variant) the wait reports the server ready when the timeout is reached
wait_for_server_clean_always_ready(m, sandbox, port, ready) ==
    Return([Emit(m, <<"poll", sandbox, port, ready>>)
                EXCEPT !.healthy = IF ready THEN @ \cup {sandbox} ELSE @],
           TRUE)

\* _wait_for_server_clean: curl the port until a valid HTTP status or the timeout
wait_for_server_clean(m, sandbox, port, ready) ==
    Return([Emit(m, <<"poll", sandbox, port, ready>>)
                EXCEPT !.healthy = IF ready THEN @ \cup {sandbox} ELSE @],
           ready)

\* the frontend tier: report, start it in the background, wait for port 3000
start_frontend(m, sandbox, s, ws) ==
    LET p == report_status(m, ws, "starting")
        m3 == Emit(p.m, <<"run", sandbox, "frontend">>)
        w == wait_for_server_clean(m3, sandbox, frontend_port, s.ready)
    IN IF p.raised THEN Raise(p.m)
       ELSE IF s.exc = "frontend" THEN Raise(m3)
       ELSE w

\* (variant) the frontend is started and waited for before the other tiers
start_servers_body_frontend_first(m, sandbox, s, ws) ==
    LET p == report_status(m, ws, "starting")
        m0 == Emit(p.m, <<"exists", sandbox>>)
        f == IF s.hasFrontend THEN start_frontend(m0, sandbox, s, ws) ELSE Return(m0, TRUE)
        m1 == IF s.hasBackend THEN Emit(f.m, <<"run", sandbox, "backend">>) ELSE f.m
        m2 == IF s.hasAi THEN Emit(m1, <<"run", sandbox, "ai_services">>) ELSE m1
    IN IF p.raised THEN Return(p.m, StartFailed)
       ELSE IF s.exc = "exists" THEN Return(m0, StartFailed)
       ELSE IF f.raised \/ ~f.ret THEN Return(f.m, StartFailed)
       ELSE IF s.hasBackend /\ s.exc = "backend" THEN Return(m1, StartFailed)
       ELSE IF s.hasAi /\ s.exc = "ai_services" THEN Return(m2, StartFailed)
       ELSE IF ~s.hasFrontend
            THEN Return(m2, [success |-> TRUE, has_url_key |-> TRUE, preview_url |-> None])
       ELSE Return(Emit(m2, <<"get_host", sandbox, s.hostOk>>),
                   [success |-> TRUE, has_url_key |-> TRUE,
                    preview_url |-> IF s.hostOk THEN sandbox ELSE None])

start_servers_body(m, sandbox, s, ws) ==
    LET p == report_status(m, ws, "starting")
        m0 == Emit(p.m, <<"exists", sandbox>>)
        m1 == IF s.hasBackend THEN Emit(m0, <<"run", sandbox, "backend">>) ELSE m0
        m2 == IF s.hasAi THEN Emit(m1, <<"run", sandbox, "ai_services">>) ELSE m1
        f == start_frontend(m2, sandbox, s, ws)
    IN IF p.raised THEN Return(p.m, StartFailed)
       ELSE IF s.exc = "exists" THEN Return(m0, StartFailed)
       ELSE IF s.hasBackend /\ s.exc = "backend" THEN Return(m1, StartFailed)
       ELSE IF s.hasAi /\ s.exc = "ai_services" THEN Return(m2, StartFailed)
       ELSE IF ~s.hasFrontend
            THEN Return(m2, [success |-> TRUE, has_url_key |-> TRUE, preview_url |-> None])
       ELSE IF f.raised \/ ~f.ret THEN Return(f.m, StartFailed)
       ELSE Return(Emit(f.m, <<"get_host", sandbox, s.hostOk>>),
                   [success |-> TRUE, has_url_key |-> TRUE,
                    preview_url |-> IF s.hostOk THEN sandbox ELSE None])

start_servers(m, project_id, s, ws) ==
    IF project_id \notin DOMAIN m.active_sandboxes
    THEN Return(Emit(m, <<"start_servers", project_id, FALSE, None>>), StartFailed)
    ELSE LET r == start_servers_body(m, m.active_sandboxes[project_id], s, ws)
         IN Return(Emit(r.m, <<"start_servers", project_id, r.ret.success, r.ret.preview_url>>),
                   r.ret)

\* get_preview_url: the exposed host of port 3000 of the tracked sandbox
get_preview_url(m, project_id, hostOk) ==
    IF project_id \notin DOMAIN m.active_sandboxes
    THEN Return(m, None)
    ELSE LET sandbox == m.active_sandboxes[project_id]
         IN Return(Emit(m, <<"get_host", sandbox, hostOk>>),
                   IF hostOk THEN sandbox ELSE None)

\* ------------------------------------------------------------------------
\* update_files_hot_reload.  updated maps some paths to their new content,
\* current maps every path to the content the sandbox holds (Absent: no such
\* file, files.read raises); failPath is the path whose write fails (0: none).
\* ------------------------------------------------------------------------
Paths == 1..MaxPaths
\* file contents: the empty file and a non-empty one
Contents == {"", "a"}
Absent == "<absent>"

\* the keys of a dict of paths, in order
RECURSIVE KeySeq(_, _)
KeySeq(d, from) ==
    IF from > MaxPaths THEN <<>>
    ELSE IF from \in DOMAIN d THEN <<from>> \o KeySeq(d, from + 1)
    ELSE KeySeq(d, from + 1)

\* existing_files[path]: the content read, "" when the read raises
read_existing(current, path) == IF current[path] = Absent THEN "" ELSE current[path]

RECURSIVE EmitEach(_, _, _, _)
EmitEach(m, tag, sandbox, paths) ==
    IF paths = <<>> THEN m
    ELSE EmitEach(Emit(m, <<tag, sandbox, Head(paths)>>), tag, sandbox, Tail(paths))

\* the batches of changed files: all writes of a batch are issued, then gathered
RECURSIVE reload_batches(_, _, _, _)
reload_batches(m, sandbox, changed, failPath) ==
    LET k == Min(Len(changed), batch_size)
        batch == SubSeq(changed, 1, k)
        issued == EmitEach(m, "write", sandbox, batch)
        acked == SelectSeq(batch, LAMBDA q : q # failPath)
    IN IF changed = <<>> THEN Return(m, TRUE)
       ELSE IF \E i \in DOMAIN batch : batch[i] = failPath
            THEN Raise(EmitEach(issued, "ack", sandbox, acked))
            ELSE reload_batches(EmitEach(issued, "ack", sandbox, batch), sandbox,
                                SubSeq(changed, k + 1, Len(changed)), failPath)

\* the reads and the diff of update_files_hot_reload, then the uploads
hot_reload_body(m, sandbox, updated, current, failPath) ==
    LET keys == KeySeq(updated, 1)
        changed == SelectSeq(keys, LAMBDA q : read_existing(current, q) # updated[q])
    IN reload_batches(EmitEach(m, "read", sandbox, keys), sandbox, changed, failPath)

\* except Exception: the failure is logged, False is returned
ExceptReturnFalse(r) == IF r.raised THEN Return(r.m, FALSE) ELSE r

update_files_hot_reload(m, project_id, updated, current, failPath) ==
    IF project_id \notin DOMAIN m.active_sandboxes
    THEN Return(m, FALSE)
    ELSE ExceptReturnFalse(hot_reload_body(m, m.active_sandboxes[project_id],
                                           updated, current, failPath))

\* _check_sandbox_health: "echo health_check"; any exception counts as unhealthy
check_sandbox_health(m, sandbox, probeOk) ==
    Return(Emit(m, <<"probe", sandbox, probeOk>>), probeOk)

\* ------------------------------------------------------------------------
\* _recreate_sandbox_from_db.  a is what the collaborators answer:
\*   dbOk      the database calls return (do not raise)
\*   files     number of documents db.code_files.find yields for the project
\*   mode      preview_mode of the stored session ("fullstack" if none)
\*   evictOk, createOk, failAt, start   as in the methods called
\* ------------------------------------------------------------------------
\* (variant) the replay is started even when the store holds no file
recreate_body_replays_nothing(m, project_id, t, a) ==
    IF ~a.dbOk
    THEN Raise(Emit(m, <<"find_failed", project_id>>))
    ELSE LET m0 == Emit(m, <<"find", project_id, a.files>>)
             c == create_sandbox(Emit(m0, <<"create_sandbox", project_id>>),
                                 project_id, t, a.evictOk, a.createOk)
             d == deploy_files(c.m, project_id, a.files, a.mode, a.failAt, "none")
             j == inject_package_json(d.m, project_id)
             i == install_dependencies(j.m, project_id, a.mode)
             s == start_servers(i.m, project_id, a.start, "none")
         IN IF c.raised THEN Raise(c.m)
            ELSE IF ~i.ret.success THEN Return(i.m, None)
            ELSE IF ~s.ret.success THEN Return(s.m, None)
            ELSE Return(s.m, IF project_id \in DOMAIN s.m.active_sandboxes
                             THEN s.m.active_sandboxes[project_id] ELSE None)

recreate_body(m, project_id, t, a) ==
    IF ~a.dbOk
    THEN Raise(Emit(m, <<"find_failed", project_id>>))
    ELSE LET m0 == Emit(m, <<"find", project_id, a.files>>)
         IN IF a.files = 0
            THEN Return(m0, None)
            ELSE LET c == create_sandbox(Emit(m0, <<"create_sandbox", project_id>>),
                                         project_id, t, a.evictOk, a.createOk)
                     d == deploy_files(c.m, project_id, a.files, a.mode, a.failAt, "none")
                     j == inject_package_json(d.m, project_id)
                     i == install_dependencies(j.m, project_id, a.mode)
                     s == start_servers(i.m, project_id, a.start, "none")
                 IN IF c.raised THEN Raise(c.m)
                    ELSE IF ~i.ret.success THEN Return(i.m, None)
                    ELSE IF ~s.ret.success THEN Return(s.m, None)
                    ELSE Return(s.m, IF project_id \in DOMAIN s.m.active_sandboxes
                                     THEN s.m.active_sandboxes[project_id] ELSE None)

recreate_sandbox_from_db(m, project_id, t, a) ==
    ExceptReturnNone(recreate_body(m, project_id, t, a))

\* ------------------------------------------------------------------------
\* get_active_sandbox
\* ------------------------------------------------------------------------
\* (variant) a healthy sandbox is returned without refreshing last_activity
get_active_body_no_refresh(m, project_id, t, a) ==
    IF project_id \in DOMAIN m.active_sandboxes
    THEN LET sandbox == m.active_sandboxes[project_id]
             h == check_sandbox_health(m, sandbox, a.probeOk)
         IN IF ~h.ret
            THEN recreate_sandbox_from_db(cleanup_sandbox(h.m, project_id, a.killOk),
                                          project_id, t, a)
            ELSE Return(h.m, sandbox)
    ELSE recreate_sandbox_from_db(m, project_id, t, a)

get_active_body(m, project_id, t, a) ==
    IF project_id \notin DOMAIN m.active_sandboxes
    THEN recreate_sandbox_from_db(m, project_id, t, a)
    ELSE LET sandbox == m.active_sandboxes[project_id]
             h == check_sandbox_health(m, sandbox, a.probeOk)
         IN IF ~h.ret
            THEN recreate_sandbox_from_db(cleanup_sandbox(h.m, project_id, a.killOk),
                                          project_id, t, a)
            ELSE Return([h.m EXCEPT !.last_activity = OSet(@, project_id, t)], sandbox)

get_active_sandbox(m, project_id, t, a) ==
    ExceptReturnNone(get_active_body(m, project_id, t, a))

\* ------------------------------------------------------------------------
\* cleanup_inactive_sandboxes: every project whose last access is older than
\* the TTL is cleaned up, in the order of last_activity
\* ------------------------------------------------------------------------
IsInactive(last_access, t) ==
    last_access * MinutesPerTick < t * MinutesPerTick - sandbox_ttl_minutes

RECURSIVE cleanup_each(_, _, _)
cleanup_each(m, pids, killOk) ==
    IF pids = <<>> THEN m
    ELSE cleanup_each(cleanup_sandbox(m, Head(pids), killOk[Head(pids)]), Tail(pids), killOk)

cleanup_inactive_sandboxes(m, t, killOk) ==
    LET inactive == SelectSeq(m.last_activity, LAMBDA e : IsInactive(e[2], t))
        inactive_projects == [i \in DOMAIN inactive |-> inactive[i][1]]
    IN cleanup_each(m, inactive_projects, killOk)

\* ------------------------------------------------------------------------
\* handle_code_generation, from the saving of the generated files on
\* (stages 4 to 6): the n >= 1 files are inserted into db.code_blobs, then
\* the sandbox is created, deployed to and started; an exception in the
\* sandbox stage is logged and the run completes with the placeholder URL.
\*   a.timeout   the stage whose asyncio.timeout expires ("none", "deploy", "start")
\*   a.hasDeps   the agent reported dependencies
\*   a.ws        the state of the user's websocket channel
\* The result is the preview URL sent in the completion message and the
\* session document saved (NoSession: none saved).
\* ------------------------------------------------------------------------
\* the end of the sandbox stage: the preview URL of the completion message
\* and the session document that is saved
deployment_result(s, sandbox_id, a) ==
    LET preview_url == IF a.timeout # "start" /\ s.ret.has_url_key
                       THEN s.ret.preview_url ELSE Placeholder
    IN Return(s.m, [preview_url |-> preview_url,
                    session |-> [status |-> "active", sandbox_id |-> sandbox_id,
                                 preview_url |-> preview_url,
                                 preview_mode |-> "fullstack"]])

sandbox_deployment(m, project_id, n, t, a) ==
    LET c == create_sandbox(Emit(m, <<"create_sandbox", project_id>>),
                            project_id, t, a.evictOk, a.createOk)
        d == deploy_files(c.m, project_id, n, "fullstack", a.failAt, a.ws)
        j == inject_package_json(d.m, project_id)
        i == IF a.hasDeps THEN install_dependencies(j.m, project_id, "fullstack") ELSE j
        s == start_servers(i.m, project_id, a.start, a.ws)
    IN IF c.raised THEN Raise(c.m)
       ELSE IF a.timeout = "deploy" THEN Raise(d.m)
       ELSE deployment_result(s, c.ret, a)

\* except Exception as e: the failure is logged; the run completes with the
\* placeholder URL and saves no session
ExceptPlaceholder(r) ==
    IF r.raised THEN Return(r.m, [preview_url |-> Placeholder, session |-> NoSession])
    ELSE r

handle_code_generation(m, project_id, n, t, a) ==
    ExceptPlaceholder(sandbox_deployment(m, project_id, n, t, a))

\* ------------------------------------------------------------------------
\* _wait_for_server_clean, step by step.  A probe is one curl run in the
\* sandbox: it raises, or it returns an exit code and the text curl wrote
\* (a str, here a sequence of characters).
\* ------------------------------------------------------------------------
Digits == <<"0", "1", "2", "3", "4", "5", "6", "7", "8", "9">>
Whitespace == {" ", "\n"}

IsDigitChar(c) == \E d \in DOMAIN Digits : Digits[d] = c
DigitValue(c) == (CHOOSE d \in DOMAIN Digits : Digits[d] = c) - 1

\* str.strip()
RECURSIVE lstrip(_)
lstrip(str) ==
    IF str # <<>> /\ Head(str) \in Whitespace THEN lstrip(Tail(str)) ELSE str

RECURSIVE rstrip(_)
rstrip(str) ==
    IF str # <<>> /\ str[Len(str)] \in Whitespace
    THEN rstrip(SubSeq(str, 1, Len(str) - 1)) ELSE str

strip(str) == rstrip(lstrip(str))

\* str.isdigit()
isdigit(str) == str # <<>> /\ \A i \in DOMAIN str : IsDigitChar(str[i])

\* int(str) of a string of digits
RECURSIVE int(_)
int(str) ==
    IF str = <<>> THEN 0
    ELSE int(SubSeq(str, 1, Len(str) - 1)) * 10 + DigitValue(str[Len(str)])

\* (variant) only a 2xx status counts as ready
probe_ready_success_only(result) ==
    /\ ~result.raises
    /\ result.exit_code = 0
    /\ LET http_code == strip(result.stdout)
       IN /\ http_code # <<>>
          /\ isdigit(http_code)
          /\ int(http_code) >= 200
          /\ int(http_code) < 300

\* the probe shows a running server: exit code 0 and an HTTP status 200..599
probe_ready(result) ==
    /\ ~result.raises
    /\ result.exit_code = 0
    /\ LET http_code == strip(result.stdout)
       IN /\ http_code # <<>>
          /\ isdigit(http_code)
          /\ int(http_code) >= 200
          /\ int(http_code) < 600

\* what curl may answer
ProbeResults ==
    {[raises |-> TRUE, exit_code |-> 0, stdout |-> <<>>]}
    \cup {[raises |-> FALSE, exit_code |-> 7, stdout |-> <<"0", "0", "0">>],
          [raises |-> FALSE, exit_code |-> 28, stdout |-> <<"2", "0", "0">>]}
    \cup {[raises |-> FALSE, exit_code |-> 0, stdout |-> out] :
            out \in {<<>>, <<"\n">>, <<"0", "0", "0">>, <<"1", "9", "9">>,
                     <<"2", "0", "0">>, <<"2", "0", "0", "\n">>, <<"4", "0", "4">>,
                     <<"5", "9", "9">>, <<"6", "0", "0">>, <<"o", "k">>,
                     <<"2", "0", "x">>}}

NoProbe == [raises |-> FALSE, exit_code |-> 0, stdout |-> <<>>]

\* no poll is running
PollIdle == [pc |-> "idle", elapsed |-> 0, counter |-> 0, probes |-> 0,
             result |-> NoProbe, log |-> {}, ret |-> FALSE]

\* ------------------------------------------------------------------------
\* What the collaborators may answer
\* ------------------------------------------------------------------------
StartAnswers ==
    [exc : {"none", "exists", "backend", "ai_services", "frontend"},
     hasFrontend : BOOLEAN, hasBackend : BOOLEAN, hasAi : BOOLEAN,
     ready : BOOLEAN, hostOk : BOOLEAN]

\* one answer for each way start_servers can end (frontend and backend tiers)
StartScenarios ==
    {s \in StartAnswers :
        /\ s.hasBackend /\ ~s.hasAi
        /\ s.exc = "none"
        /\ (~s.hasFrontend => s.ready /\ s.hostOk)
        /\ (~s.ready => s.hostOk)}

\* preview_mode recorded for the project ("fullstack" when no session is stored)
StoredMode(project_id) ==
    IF sandbox_sessions[project_id].status = "none"
    THEN "fullstack" ELSE sandbox_sessions[project_id].preview_mode

\* the answer start_servers gets when nothing goes wrong
StartOk == [exc |-> "none", hasFrontend |-> TRUE, hasBackend |-> TRUE, hasAi |-> FALSE,
            ready |-> TRUE, hostOk |-> TRUE]

\* Answers to one get_active_sandbox call.  An answer that is never asked for
\* (the probe of an untracked project, the allocation after a failed read ...)
\* is fixed, so that each course of the call is taken once.
AllOk(project_id) ==
    [probeOk |-> TRUE, killOk |-> TRUE, dbOk |-> TRUE,
     files |-> code_files[project_id], mode |-> StoredMode(project_id),
     evictOk |-> TRUE, createOk |-> TRUE, failAt |-> 0, start |-> StartOk]

RecreateAnswers(project_id) ==
    LET ok == AllOk(project_id)
    IN IF ok.files = 0
       THEN {ok, [ok EXCEPT !.dbOk = FALSE]}
       ELSE {[ok EXCEPT !.dbOk = FALSE]}
            \cup {[ok EXCEPT !.evictOk = e, !.createOk = FALSE] : e \in BOOLEAN}
            \cup {[ok EXCEPT !.evictOk = e, !.failAt = f, !.start = s] :
                     e \in BOOLEAN, f \in 0..ok.files, s \in StartScenarios}

GetActiveAnswers(project_id) ==
    IF project_id \in DOMAIN active_sandboxes
    THEN {AllOk(project_id)}
         \cup {[a EXCEPT !.probeOk = FALSE, !.killOk = k] :
                  a \in RecreateAnswers(project_id), k \in BOOLEAN}
    ELSE RecreateAnswers(project_id)

\* Every way one start_servers call can go.  An answer that is never asked
\* for (after the call that raises, after a failed poll ...) is fixed.
StartCases ==
    {s \in StartAnswers :
        /\ (s.exc = "exists" => s.hasFrontend /\ s.hasBackend /\ s.hasAi)
        /\ (s.exc = "backend" => s.hasBackend)
        /\ (s.exc = "ai_services" => s.hasAi)
        /\ (s.exc = "frontend" => s.hasFrontend)
        /\ (s.exc # "none" \/ ~s.hasFrontend => s.ready /\ s.hostOk)
        /\ (~s.ready => s.hostOk)}

Reporters == {"none", "ok", "gone", "raises"}

\* Answers and reporter of one direct start_servers call: every case without
\* a reporter, every reporter on each way the call can end
StartInputs ==
    {[s |-> s, ws |-> "none"] : s \in StartCases}
    \cup {[s |-> s, ws |-> w] : s \in StartScenarios, w \in Reporters}

\* Inputs and answers of one direct deploy_files call: n files, the first
\* failing write, the reporter, the preview mode.  Every size is deployed
\* without a reporter; the largest deploy fails at each of its files; the
\* reporters are tried on an empty, a one-batch and the largest deploy.
DeployAnswers ==
    {[n |-> n, failAt |-> 0, ws |-> "none", mode |-> "fullstack"] :
        n \in 0..MaxDeployFiles}
    \cup {[n |-> MaxDeployFiles, failAt |-> f, ws |-> "none", mode |-> "frontend_only"] :
        f \in 1..MaxDeployFiles}
    \cup {[n |-> n, failAt |-> 0, ws |-> w, mode |-> "fullstack"] :
        n \in {0, 1, MaxDeployFiles}, w \in Reporters}
    \cup {[n |-> MaxDeployFiles, failAt |-> f, ws |-> "ok", mode |-> "fullstack"] :
        f \in {1, MaxDeployFiles}}

\* Inputs of one direct install_dependencies call: the preview mode and the
\* tiers that have a manifest in the sandbox beside the frontend's
InstallInputs ==
    [preview_mode : {"fullstack", "frontend_only"}, hasBackend : BOOLEAN, hasAi : BOOLEAN]

\* Inputs and answers of one update_files_hot_reload call
ReloadInputs ==
    {[updated |-> u, current |-> c, failPath |-> f] :
        u \in UNION {[S -> Contents] : S \in SUBSET Paths},
        c \in [Paths -> Contents \cup {Absent}],
        f \in {0, 1}}

\* Answers to one handle_code_generation run with n files
GenerationAnswers(n) ==
    LET ok == [evictOk |-> TRUE, createOk |-> TRUE, failAt |-> 0, start |-> StartOk,
               timeout |-> "none", hasDeps |-> TRUE, ws |-> "ok"]
    IN {[ok EXCEPT !.hasDeps = FALSE]}
       \cup {[ok EXCEPT !.ws = w] : w \in {"gone", "raises"}}
       \cup {[ok EXCEPT !.timeout = x] : x \in {"deploy", "start"}}
       \cup {[ok EXCEPT !.evictOk = e, !.createOk = FALSE] : e \in BOOLEAN}
       \cup {[ok EXCEPT !.evictOk = e, !.failAt = f, !.start = s] :
                e \in BOOLEAN, f \in 0..n, s \in StartScenarios}

\* ------------------------------------------------------------------------
\* State machine
\* ------------------------------------------------------------------------
\* the record of a completed call: what was called with which answers of the
\* collaborators (input), what it returned and the remote calls it made
CallWith(op, project_id, input, r) ==
    [op |-> op, project_id |-> project_id, input |-> input, ret |-> r.ret,
     raised |-> r.raised, events |-> r.m.events]

Call(op, project_id, r) == CallWith(op, project_id, None, r)

Commit(m) ==
    /\ active_sandboxes' = m.active_sandboxes
    /\ sandbox_ids' = m.sandbox_ids
    /\ sandbox_processes' = m.sandbox_processes
    /\ last_activity' = m.last_activity
    /\ sandbox_metadata' = m.sandbox_metadata
    /\ terminated' = m.terminated
    /\ allocated' = m.allocated
    /\ healthy' = m.healthy

\* ------------------------------------------------------------------------
\* The manager's coroutines on the event loop.  A coroutine runs without
\* interruption from one await of a remote call to the next; while it is
\* suspended the others run.  tasks[i] holds the position (pc) and the
\* locals of suspended coroutine i:
\*   "kill"    cleanup_sandbox awaits sandbox.kill of target's sandbox
\*   "alloc"   create_sandbox awaits Sandbox.create
\*   "send"    deploy_files awaits the first progress message
\*   "health"  get_active_sandbox awaits the health probe
\* The history variable last records only the calls made one at a time.
\* ------------------------------------------------------------------------
NoTask == [op |-> "none", project_id |-> None, pc |-> "none", sandbox |-> None,
           target |-> None, pending |-> <<>>]

Suspended(op, project_id, pc, sandbox, target, pending) ==
    [op |-> op, project_id |-> project_id, pc |-> pc, sandbox |-> sandbox,
     target |-> target, pending |-> pending]

Init ==
    /\ active_sandboxes = <<>>
    /\ sandbox_ids = <<>>
    /\ sandbox_processes = <<>>
    /\ last_activity = <<>>
    /\ sandbox_metadata = <<>>
    /\ terminated = {}
    /\ allocated = 0
    /\ healthy = {}
    /\ code_files = [p \in Projects |-> IF p = 1 THEN 0 ELSE MaxFiles]
    /\ code_blobs = [p \in Projects |-> 0]
    /\ sandbox_sessions = [p \in Projects |-> NoSession]
    /\ now = 0
    /\ last = [op |-> "init", project_id |-> None, input |-> None, ret |-> None,
               raised |-> FALSE, events |-> <<>>]
    /\ poll = PollIdle
    /\ tasks = [i \in 1..MaxTasks |-> NoTask]

\* time passes before a call: the call reads the clock once, as now'
Elapse == \E d \in 0..1 : now + d <= MaxTime /\ now' = now + d

CreateSandbox(p) ==
    \E evictOk \in BOOLEAN, createOk \in BOOLEAN :
        /\ Elapse
        /\ \E r \in {create_sandbox(Mgr, p, now', evictOk, createOk)} :
              /\ r.m.allocated <= MaxAlloc
              /\ Commit(r.m)
              /\ last' = Call("create_sandbox", p, r)
        /\ UNCHANGED <<code_files, code_blobs, sandbox_sessions, poll, tasks>>

GetActiveSandbox(p) ==
    \E a \in GetActiveAnswers(p) :
        /\ Elapse
        /\ \E r \in {get_active_sandbox(Mgr, p, now', a)} :
              /\ r.m.allocated <= MaxAlloc
              /\ Commit(r.m)
              /\ last' = Call("get_active_sandbox", p, r)
        /\ UNCHANGED <<code_files, code_blobs, sandbox_sessions, poll, tasks>>

CleanupSandbox(p) ==
    \E killOk \in BOOLEAN :
        /\ Elapse
        /\ \E m \in {cleanup_sandbox(Mgr, p, killOk)} :
              /\ Commit(m)
              /\ last' = Call("cleanup_sandbox", p, Return(m, None))
        /\ UNCHANGED <<code_files, code_blobs, sandbox_sessions, poll, tasks>>

CleanupInactiveSandboxes ==
    \E killOk \in [Projects -> BOOLEAN] :
        /\ Elapse
        /\ \E m \in {cleanup_inactive_sandboxes(Mgr, now', killOk)} :
              /\ Commit(m)
              /\ last' = Call("cleanup_inactive_sandboxes", None, Return(m, None))
        /\ UNCHANGED <<code_files, code_blobs, sandbox_sessions, poll, tasks>>

\* a generation run creates a project of its own (a fresh uuid)
HandleCodeGeneration(p) ==
    \E n \in 1..MaxFiles :
      \E a \in GenerationAnswers(n) :
        /\ code_blobs[p] = 0 /\ code_files[p] = 0 /\ sandbox_sessions[p] = NoSession
        /\ p \notin DOMAIN active_sandboxes
        /\ Elapse
        /\ \E r \in {handle_code_generation(Mgr, p, n, now', a)} :
              /\ r.m.allocated <= MaxAlloc
              /\ Commit(r.m)
              /\ code_blobs' = [code_blobs EXCEPT ![p] = n]
              /\ sandbox_sessions' = IF r.ret.session = NoSession THEN sandbox_sessions
                                     ELSE [sandbox_sessions EXCEPT ![p] = r.ret.session]
              /\ last' = CallWith("handle_code_generation", p, a,
                                   Return(r.m, r.ret.preview_url))
        /\ UNCHANGED <<code_files, poll, tasks>>

\* send_heartbeat (project found): refresh the timestamp of a tracked project
SendHeartbeat(p) ==
    /\ Elapse
    /\ last_activity' = IF p \in OKeys(last_activity)
                        THEN OSet(last_activity, p, now') ELSE last_activity
    /\ last' = Call("send_heartbeat", p, Return(Mgr, None))
    /\ UNCHANGED <<active_sandboxes, sandbox_ids, sandbox_processes, sandbox_metadata,
                   terminated, allocated, healthy, code_files, code_blobs,
                   sandbox_sessions, poll, tasks>>

\* deploy_files called on its own (project routes, modification handler)
DeployFiles(p) ==
    \E a \in DeployAnswers :
        /\ Elapse
        /\ \E r \in {deploy_files(Mgr, p, a.n, a.mode, a.failAt, a.ws)} :
              /\ Commit(r.m)
              /\ last' = CallWith("deploy_files", p, a, r)
        /\ UNCHANGED <<code_files, code_blobs, sandbox_sessions, poll, tasks>>

\* install_dependencies called on its own
InstallDependencies(p) ==
    \E a \in InstallInputs :
        /\ Elapse
        /\ \E r \in {install_dependencies(Mgr, p, a.preview_mode)} :
              /\ Commit(r.m)
              /\ last' = CallWith("install_dependencies", p, a, r)
        /\ UNCHANGED <<code_files, code_blobs, sandbox_sessions, poll, tasks>>

\* start_servers called on its own
StartServers(p) ==
    \E a \in StartInputs :
        /\ Elapse
        /\ \E r \in {start_servers(Mgr, p, a.s, a.ws)} :
              /\ Commit(r.m)
              /\ last' = CallWith("start_servers", p, a, r)
        /\ UNCHANGED <<code_files, code_blobs, sandbox_sessions, poll, tasks>>

\* get_preview_url
GetPreviewUrl(p) ==
    \E hostOk \in BOOLEAN :
        /\ Elapse
        /\ \E r \in {get_preview_url(Mgr, p, hostOk)} :
              /\ Commit(r.m)
              /\ last' = Call("get_preview_url", p, r)
        /\ UNCHANGED <<code_files, code_blobs, sandbox_sessions, poll, tasks>>

\* update_files_hot_reload
UpdateFilesHotReload(p) ==
    \E a \in ReloadInputs :
        /\ Elapse
        /\ \E r \in {update_files_hot_reload(Mgr, p, a.updated, a.current, a.failPath)} :
              /\ Commit(r.m)
              /\ last' = CallWith("update_files_hot_reload", p, a, r)
        /\ UNCHANGED <<code_files, code_blobs, sandbox_sessions, poll, tasks>>

\* _wait_for_server_clean is called: start_time is read, counter = 0
PollStart ==
    /\ poll.pc = "idle"
    /\ poll' = [poll EXCEPT !.pc = "test"]
    /\ UNCHANGED <<registry, terminated, allocated, healthy, code_files, code_blobs,
                   sandbox_sessions, now, last, tasks>>

\* the loop test; inside the loop the counter is incremented and every
\* twentieth iteration is logged
PollTest ==
    /\ poll.pc = "test"
    /\ poll' = IF poll.elapsed < PollTimeout
               THEN [poll EXCEPT !.pc = "probe",
                                 !.counter = @ + 1,
                                 !.log = IF (poll.counter + 1) % 20 = 0
                                         THEN {"still waiting"} ELSE {}]
               ELSE [poll EXCEPT !.pc = "done", !.ret = FALSE, !.log = {"timeout"}]
    /\ UNCHANGED <<registry, terminated, allocated, healthy, code_files, code_blobs,
                   sandbox_sessions, now, last, tasks>>

\* the probe is run in the executor and its result examined
PollProbe ==
    /\ poll.pc = "probe"
    /\ \E result \in ProbeResults, d \in 0..MaxProbeTicks :
          poll' = IF probe_ready(result)
                  THEN [poll EXCEPT !.pc = "done", !.ret = TRUE, !.result = result,
                                    !.probes = @ + 1, !.elapsed = @ + d,
                                    !.log = {"ready"}]
                  ELSE [poll EXCEPT !.pc = "sleep", !.result = result,
                                    !.probes = @ + 1, !.elapsed = @ + d,
                                    !.log = IF /\ ~result.raises
                                               /\ result.exit_code = 0
                                               /\ poll.counter % 10 = 0
                                            THEN {"unexpected code"} ELSE {}]
    /\ UNCHANGED <<registry, terminated, allocated, healthy, code_files, code_blobs,
                   sandbox_sessions, now, last, tasks>>

\* asyncio.sleep(0.5)
PollSleep ==
    /\ poll.pc = "sleep"
    /\ poll' = [poll EXCEPT !.pc = "test", !.elapsed = @ + 1, !.log = {}]
    /\ UNCHANGED <<registry, terminated, allocated, healthy, code_files, code_blobs,
                   sandbox_sessions, now, last, tasks>>

NextPoll == PollStart \/ PollTest \/ PollProbe \/ PollSleep

SpecPoll == Init /\ [][NextPoll]_vars

\* the event loop resumes the coroutine when its sleep or its probe is over
SpecPollLive == SpecPoll /\ WF_vars(NextPoll)

\* a coroutine is started and runs to its first await
Spawn(task) ==
    \E i \in DOMAIN tasks :
        /\ tasks[i] = NoTask
        /\ \A j \in DOMAIN tasks : j < i => tasks[j] # NoTask
        /\ tasks' = [tasks EXCEPT ![i] = task]

UnchangedRegistry == UNCHANGED <<registry, terminated, allocated, healthy>>
UnchangedDb == UNCHANGED <<code_files, code_blobs, sandbox_sessions, poll, last>>

\* create_sandbox up to its first await: _enforce_sandbox_limit picks the LRU
\* project and cleanup_sandbox awaits its kill; below the limit, or when the
\* LRU project has no handle, the allocation is awaited
AsyncCreateSandbox(p) ==
    /\ Elapse
    /\ IF Cardinality(DOMAIN active_sandboxes) >= max_sandboxes
       THEN IF last_activity = <<>>
            THEN UNCHANGED tasks
            ELSE LET lru_id == MinKey(last_activity)
                 IN IF lru_id \in DOMAIN active_sandboxes
                    THEN Spawn(Suspended("create_sandbox", p, "kill",
                                         active_sandboxes[lru_id], lru_id, <<>>))
                    ELSE Spawn(Suspended("create_sandbox", p, "alloc", None, None, <<>>))
       ELSE Spawn(Suspended("create_sandbox", p, "alloc", None, None, <<>>))
    /\ UnchangedRegistry
    /\ UnchangedDb

\* cleanup_sandbox up to the await of the kill (for an untracked project the
\* call returns at once and nothing changes)
AsyncCleanupSandbox(p) ==
    /\ p \in DOMAIN active_sandboxes
    /\ Elapse
    /\ Spawn(Suspended("cleanup_sandbox", p, "kill", active_sandboxes[p], p, <<>>))
    /\ UnchangedRegistry
    /\ UnchangedDb

\* the projects of a sweep that cleanup_sandbox returns from at once
RECURSIVE SkipUntracked(_, _)
SkipUntracked(pids, active) ==
    IF pids # <<>> /\ Head(pids) \notin DOMAIN active
    THEN SkipUntracked(Tail(pids), active) ELSE pids

\* the sweep calls cleanup_sandbox for the next project of its list
SweepNext(i, pids, active) ==
    LET rest == SkipUntracked(pids, active)
    IN IF rest = <<>>
       THEN NoTask
       ELSE Suspended("cleanup_inactive_sandboxes", None, "kill",
                      active[Head(rest)], Head(rest), Tail(rest))

\* cleanup_inactive_sandboxes up to its first await: the list of inactive
\* projects is computed, then cleanup_sandbox is called for the first
AsyncCleanupInactiveSandboxes ==
    /\ Elapse
    /\ LET inactive == SelectSeq(last_activity, LAMBDA e : IsInactive(e[2], now'))
           inactive_projects == [i \in DOMAIN inactive |-> inactive[i][1]]
           first == SweepNext(0, inactive_projects, active_sandboxes)
       IN /\ first # NoTask
          /\ Spawn(first)
    /\ UnchangedRegistry
    /\ UnchangedDb

\* sandbox.kill returns or raises; cleanup_sandbox drops the target's entries
\* or logs the error, and its caller goes on
KillDone(i) ==
    /\ tasks[i].pc = "kill"
    /\ Elapse
    /\ \E killOk \in BOOLEAN :
          LET target == tasks[i].target
              active == IF killOk THEN DictPop(active_sandboxes, target)
                        ELSE active_sandboxes
          IN /\ active_sandboxes' = active
             /\ sandbox_ids' = IF killOk THEN DictPop(sandbox_ids, target) ELSE sandbox_ids
             /\ sandbox_processes' = IF killOk THEN DictPop(sandbox_processes, target)
                                     ELSE sandbox_processes
             /\ last_activity' = IF killOk THEN OPop(last_activity, target)
                                 ELSE last_activity
             /\ sandbox_metadata' = IF killOk THEN DictPop(sandbox_metadata, target)
                                    ELSE sandbox_metadata
             /\ terminated' = IF killOk THEN terminated \cup {tasks[i].sandbox}
                              ELSE terminated
             /\ healthy' = IF killOk THEN healthy \ {tasks[i].sandbox} ELSE healthy
             /\ tasks' = [tasks EXCEPT ![i] =
                   IF tasks[i].op = "create_sandbox"
                   THEN [@ EXCEPT !.pc = "alloc", !.sandbox = None, !.target = None]
                   ELSE IF tasks[i].op = "cleanup_inactive_sandboxes"
                   THEN SweepNext(i, tasks[i].pending, active)
                   ELSE NoTask]
    /\ UNCHANGED allocated
    /\ UnchangedDb

\* Sandbox.create returns or raises; create_sandbox registers the sandbox
AllocDone(i) ==
    /\ tasks[i].pc = "alloc"
    /\ Elapse
    /\ \E createOk \in BOOLEAN :
          LET project_id == tasks[i].project_id
              sandbox == allocated + 1
          IN IF createOk
             THEN /\ sandbox <= MaxAlloc
                  /\ allocated' = sandbox
                  /\ active_sandboxes' = DictSet(active_sandboxes, project_id, sandbox)
                  /\ sandbox_ids' = DictSet(sandbox_ids, project_id, sandbox)
                  /\ last_activity' = OSet(last_activity, project_id, now')
                  /\ sandbox_processes' = DictSet(sandbox_processes, project_id, <<>>)
                  /\ sandbox_metadata' = DictSet(sandbox_metadata, project_id, "empty")
             ELSE UNCHANGED <<registry, allocated>>
    /\ tasks' = [tasks EXCEPT ![i] = NoTask]
    /\ UNCHANGED <<terminated, healthy>>
    /\ UnchangedDb

\* deploy_files up to its first await (for an untracked project the call
\* returns False at once and nothing changes): without a reporter the metadata is
\* stored at once (the uploads that follow touch no map); with a reporter the
\* progress message is awaited first
AsyncDeployFiles(p) ==
    /\ p \in DOMAIN active_sandboxes
    /\ Elapse
    /\ \E ws \in {"none", "ok"} :
          IF ws = "none"
          THEN /\ sandbox_metadata' = DictSet(sandbox_metadata, p, "fullstack")
               /\ UNCHANGED tasks
          ELSE /\ Spawn(Suspended("deploy_files", p, "send", active_sandboxes[p],
                                  None, <<>>))
               /\ UNCHANGED sandbox_metadata
    /\ UNCHANGED <<active_sandboxes, sandbox_ids, sandbox_processes, last_activity,
                   terminated, allocated, healthy>>
    /\ UnchangedDb

\* the progress message is sent; deploy_files stores the metadata and uploads
SendDone(i) ==
    /\ tasks[i].pc = "send"
    /\ Elapse
    /\ sandbox_metadata' = DictSet(sandbox_metadata, tasks[i].project_id, "fullstack")
    /\ tasks' = [tasks EXCEPT ![i] = NoTask]
    /\ UNCHANGED <<active_sandboxes, sandbox_ids, sandbox_processes, last_activity,
                   terminated, allocated, healthy>>
    /\ UnchangedDb

\* Answers to a recreation that runs while other coroutines are suspended
AsyncRecreateAnswers(project_id) ==
    {AllOk(project_id), [AllOk(project_id) EXCEPT !.dbOk = FALSE]}

\* get_active_sandbox up to the await of the health probe; for an untracked
\* project the recreation from the database follows (taken in one step)
AsyncGetActiveSandbox(p) ==
    /\ Elapse
    /\ IF p \in DOMAIN active_sandboxes
       THEN /\ Spawn(Suspended("get_active_sandbox", p, "health", active_sandboxes[p],
                               None, <<>>))
            /\ UnchangedRegistry
       ELSE /\ \E a \in AsyncRecreateAnswers(p) :
                 \E r \in {get_active_sandbox(Mgr, p, now', a)} :
                    /\ r.m.allocated <= MaxAlloc
                    /\ Commit(r.m)
            /\ UNCHANGED tasks
    /\ UnchangedDb

\* the health probe answers.  Healthy: the activity is refreshed and the
\* handle returned.  Unhealthy: cleanup_sandbox and the recreation follow
\* (taken in one step)
HealthDone(i) ==
    /\ tasks[i].pc = "health"
    /\ Elapse
    /\ \E probeOk \in BOOLEAN :
          IF probeOk
          THEN /\ last_activity' = OSet(last_activity, tasks[i].project_id, now')
               /\ UNCHANGED <<active_sandboxes, sandbox_ids, sandbox_processes,
                              sandbox_metadata, terminated, allocated, healthy>>
          ELSE \E a \in AsyncRecreateAnswers(tasks[i].project_id), killOk \in BOOLEAN :
                 \E r \in {get_active_sandbox(Mgr, tasks[i].project_id, now',
                                              [a EXCEPT !.probeOk = FALSE,
                                                        !.killOk = killOk])} :
                    /\ r.m.allocated <= MaxAlloc
                    /\ Commit(r.m)
    /\ tasks' = [tasks EXCEPT ![i] = NoTask]
    /\ UnchangedDb

\* a heartbeat arrives while coroutines are suspended
AsyncSendHeartbeat(p) ==
    /\ p \in OKeys(last_activity)
    /\ Elapse
    /\ last_activity' = OSet(last_activity, p, now')
    /\ UNCHANGED <<active_sandboxes, sandbox_ids, sandbox_processes, sandbox_metadata,
                   terminated, allocated, healthy, tasks>>
    /\ UnchangedDb

NextAsync ==
    \/ \E p \in Projects : AsyncCreateSandbox(p)
    \/ \E p \in Projects : AsyncCleanupSandbox(p)
    \/ AsyncCleanupInactiveSandboxes
    \/ \E p \in Projects : AsyncDeployFiles(p)
    \/ \E p \in Projects : AsyncGetActiveSandbox(p)
    \/ \E p \in Projects : AsyncSendHeartbeat(p)
    \/ \E i \in DOMAIN tasks : KillDone(i)
    \/ \E i \in DOMAIN tasks : AllocDone(i)
    \/ \E i \in DOMAIN tasks : SendDone(i)
    \/ \E i \in DOMAIN tasks : HealthDone(i)

SpecAsync == Init /\ [][NextAsync]_vars

\* the manager's methods, called one at a time
Next ==
    \/ \E p \in Projects : CreateSandbox(p)
    \/ \E p \in Projects : GetActiveSandbox(p)
    \/ \E p \in Projects : CleanupSandbox(p)
    \/ CleanupInactiveSandboxes
    \/ \E p \in Projects : SendHeartbeat(p)

Spec == Init /\ [][Next]_vars

\* the generation pipeline, followed by requests for the project's sandbox
NextGen ==
    \/ \E p \in Projects : HandleCodeGeneration(p)
    \/ \E p \in Projects : GetActiveSandbox(p)
    \/ \E p \in Projects : CleanupSandbox(p)

SpecGen == Init /\ [][NextGen]_vars

\* sandboxes are created, files are deployed to them, dependencies installed
NextDeploy ==
    \/ \E p \in Projects : CreateSandbox(p) /\ allocated' <= MaxStepAlloc
    \/ \E p \in Projects : DeployFiles(p)
    \/ \E p \in Projects : InstallDependencies(p)

SpecDeploy == Init /\ [][NextDeploy]_vars

\* sandboxes are created, their servers started, their preview URL asked for
NextStart ==
    \/ \E p \in Projects : CreateSandbox(p) /\ allocated' <= MaxStepAlloc
    \/ \E p \in Projects : StartServers(p)
    \/ \E p \in Projects : GetPreviewUrl(p)

SpecStart == Init /\ [][NextStart]_vars

\* sandboxes are created, deployed to and started, with and without a reporter
NextReport ==
    \/ \E p \in Projects : CreateSandbox(p) /\ allocated' <= MaxStepAlloc
    \/ \E p \in Projects : DeployFiles(p)
    \/ \E p \in Projects : StartServers(p)

SpecReport == Init /\ [][NextReport]_vars

\* sandboxes are created and files hot-reloaded into them
NextReload ==
    \/ \E p \in Projects : CreateSandbox(p) /\ allocated' <= MaxStepAlloc
    \/ \E p \in Projects : UpdateFilesHotReload(p)

SpecReload == Init /\ [][NextReload]_vars

\* ------------------------------------------------------------------------
\* Properties
\* ------------------------------------------------------------------------
\* the remote call e was issued by the last call
Has(ev, e) == \E i \in DOMAIN ev : ev[i][1] = e[1] /\ ev[i] = e
\* the remote calls of kind tag issued by the last call
Of(ev, tag) == {i \in DOMAIN ev : ev[i][1] = tag}
Tracked(p) == p \in DOMAIN active_sandboxes

\* the five registry entries of project p are the same before and after
EntriesUnchanged(p) ==
    /\ p \in DOMAIN active_sandboxes' /\ active_sandboxes'[p] = active_sandboxes[p]
    /\ p \in DOMAIN sandbox_ids' /\ sandbox_ids'[p] = sandbox_ids[p]
    /\ p \in DOMAIN sandbox_processes' /\ sandbox_processes'[p] = sandbox_processes[p]
    /\ p \in OKeys(last_activity') /\ OGet(last_activity', p) = OGet(last_activity, p)
    /\ p \in DOMAIN sandbox_metadata' /\ sandbox_metadata'[p] = sandbox_metadata[p]

\* project p has no entry in any registry map afterwards
NoEntries(p) ==
    /\ p \notin DOMAIN active_sandboxes'
    /\ p \notin DOMAIN sandbox_ids'
    /\ p \notin DOMAIN sandbox_processes'
    /\ p \notin OKeys(last_activity')
    /\ p \notin DOMAIN sandbox_metadata'

\* C1: the number of projects holding a live sandbox handle in the registry
\* never exceeds max_sandboxes, whatever the remote provider answers
C1_CapacityNeverExceeded ==
    Cardinality(DOMAIN active_sandboxes) <= max_sandboxes

\* C2: whenever the limit is enforced by an eviction, the project chosen has
\* the minimum last_activity over all projects tracked at that moment
C2_EvictsLeastRecentlyActive ==
    \A i \in Of(last.events, "evict") :
        LET lru_id == last.events[i][2]
            tracked == last.events[i][3]
        IN /\ lru_id \in OKeys(tracked)
           /\ \A k \in DOMAIN tracked : OGet(tracked, lru_id) <= tracked[k][2]

\* an eviction chose among two projects of different age, and terminated one
C2_Witness ==
    \E i \in Of(last.events, "evict") :
        LET tracked == last.events[i][3]
        IN /\ \E j, k \in DOMAIN tracked : tracked[j][2] < tracked[k][2]
           /\ i + 1 \in DOMAIN last.events
           /\ last.events[i + 1][1] = "kill" /\ last.events[i + 1][3]

\* C3: cleanup_sandbox (called directly, by the eviction or by the idle sweep)
\* removes a project's entries only after kill() returned on its handle; when
\* kill() failed, every registry entry of that project is left unchanged
C3_CleanupStep ==
    \A q \in DOMAIN active_sandboxes :
        LET handle == active_sandboxes[q]
            overwritten == last'.op \in {"create_sandbox", "get_active_sandbox"}
                           /\ last'.project_id = q
        IN /\ q \notin DOMAIN active_sandboxes'
              => /\ Has(last'.events, <<"kill", handle, TRUE>>)
                 /\ handle \in terminated'
                 /\ NoEntries(q)
           /\ (/\ Has(last'.events, <<"kill", handle, FALSE>>)
               /\ ~Has(last'.events, <<"kill", handle, TRUE>>)
               /\ ~overwritten)
              => EntriesUnchanged(q)

C3_RemovesOnlyAfterTerminate == [][C3_CleanupStep]_vars

\* a cleanup whose kill() failed: the project is still tracked
C3_Witness ==
    /\ last.op \in {"cleanup_sandbox", "cleanup_inactive_sandboxes"}
    /\ \E i \in Of(last.events, "kill") :
          /\ ~last.events[i][3]
          /\ \E q \in DOMAIN active_sandboxes : active_sandboxes[q] = last.events[i][2]

\* C4: when the provider fails to allocate, create_sandbox(p) raises and adds
\* no entry for p to any registry map
C4_FailedCreateStep ==
    (last'.op = "create_sandbox" /\ Has(last'.events, <<"create", None>>))
    => LET p == last'.project_id
       IN /\ last'.raised
          /\ allocated' = allocated
          /\ IF Tracked(p) /\ p \in DOMAIN active_sandboxes'
             THEN EntriesUnchanged(p) ELSE NoEntries(p)

C4_FailedAllocationRegistersNothing == [][C4_FailedCreateStep]_vars

\* a failed allocation for a project that is not tracked
C4_Witness ==
    /\ last.op = "create_sandbox" /\ last.raised
    /\ Has(last.events, <<"create", None>>)
    /\ ~Tracked(last.project_id)

\* C5: when the liveness probe of a tracked project succeeds,
\* get_active_sandbox returns that handle, refreshes last_activity and issues
\* no other remote call; so a second call in a row after a recreation
\* returns the same handle and creates nothing
C5_HealthyStep ==
    LET p == last'.project_id
    IN (/\ last'.op = "get_active_sandbox"
        /\ Tracked(p)
        /\ Has(last'.events, <<"probe", active_sandboxes[p], TRUE>>))
       => /\ last'.ret = active_sandboxes[p] /\ ~last'.raised
          /\ last'.events = << <<"probe", active_sandboxes[p], TRUE>> >>
          /\ OGet(last_activity', p) = now'
          /\ active_sandboxes' = active_sandboxes
          /\ allocated' = allocated
          /\ (last.op = "get_active_sandbox" /\ last.project_id = p /\ last.ret # None)
             => /\ last'.ret = last.ret
                /\ Cardinality(Of(last.events, "create")) <= 1

C5_HealthyHandleIsReturned == [][C5_HealthyStep]_vars

\* a probe succeeded at a time later than the recorded activity was created
C5_Witness ==
    /\ last.op = "get_active_sandbox"
    /\ last.ret # None
    /\ Of(last.events, "probe") # {} /\ Of(last.events, "create") = {}
    /\ OGet(last_activity, last.project_id) = now /\ now > 0

\* C6: when the liveness probe of a tracked project fails, the dead session is
\* terminated and its entries removed before the recreation, and a handle
\* returned is never the one that failed the probe
C6_DeadSessionIsTornDown ==
    (last.op = "get_active_sandbox" /\ Of(last.events, "probe") # {}
     /\ ~last.events[1][3])
    => LET p == last.project_id
           dead == last.events[1][2]
       IN /\ Of(last.events, "kill") # {}
          /\ dead \in terminated
          /\ Tracked(p) => active_sandboxes[p] # dead
          /\ last.ret # dead

\* C7: a recreation returns a handle only if create, deploy, install and
\* start all succeeded
C7_RecreationNeedsEveryStage ==
    (last.op = "get_active_sandbox" /\ last.ret # None
     /\ Of(last.events, "create_sandbox") # {})
    => LET p == last.project_id
       IN /\ Has(last.events, <<"create", last.ret>>)
          /\ \E i \in Of(last.events, "deploy_files") : last.events[i][4]
          /\ \E i \in Of(last.events, "install_dependencies") : last.events[i][3]
          /\ \E i \in Of(last.events, "start_servers") : last.events[i][3]

\* no remote call or database call of the last call failed
Cooperating(ev) ==
    /\ Of(ev, "find_failed") = {}
    /\ \A i \in Of(ev, "create") : ev[i][2] # None
    /\ \A i \in Of(ev, "kill") : ev[i][3]
    /\ \A i \in Of(ev, "deploy_files") : ev[i][4]
    /\ \A i \in Of(ev, "start_servers") : ev[i][3] /\ ev[i][4] # None

\* C8: for a project whose N >= 1 files the generation pipeline persisted and
\* which has no live session, get_active_sandbox with a cooperating provider
\* performs one create, one deploy of the N files, one install and one start
\* with a preview URL, returns a handle and leaves one live session
C8_RecreatesPersistedProject ==
    LET p == last.project_id
        ev == last.events
    IN (/\ last.op = "get_active_sandbox"
        /\ code_blobs[p] >= 1
        /\ Of(ev, "probe") = {}
        /\ Cooperating(ev))
       => /\ last.ret # None
          /\ Cardinality(Of(ev, "create")) = 1
          /\ Cardinality(Of(ev, "deploy_files")) = 1
          /\ Has(ev, <<"deploy_files", p, code_blobs[p], TRUE>>)
          /\ Cardinality(Of(ev, "install_dependencies")) = 1
          /\ Cardinality(Of(ev, "start_servers")) = 1
          /\ Tracked(p) /\ active_sandboxes[p] = last.ret

\* C9: when the store holds no file for an untracked project,
\* get_active_sandbox returns None, creates no sandbox and adds no entry
C9_EmptyStoreStep ==
    LET p == last'.project_id
    IN (last'.op = "get_active_sandbox" /\ ~Tracked(p) /\ code_files[p] = 0)
       => /\ last'.ret = None /\ ~last'.raised
          /\ Of(last'.events, "create") = {}
          /\ allocated' = allocated
          /\ NoEntries(p)
          /\ active_sandboxes' = active_sandboxes

C9_EmptyStoreGivesNone == [][C9_EmptyStoreStep]_vars

\* the store was read, held nothing, and None was returned
C9_Witness ==
    /\ last.op = "get_active_sandbox"
    /\ last.events = << <<"find", last.project_id, 0>> >>
    /\ last.ret = None
    /\ ~Tracked(last.project_id)

\* C10: get_active_sandbox never raises: every failure ends in a returned value
C10_GetActiveNeverRaises ==
    last.op = "get_active_sandbox" => ~last.raised

\* an allocation failure during a recreation after a failed probe and a
\* failed teardown ended in None
C10_Witness ==
    /\ last.op = "get_active_sandbox"
    /\ Has(last.events, <<"create", None>>)
    /\ \E i \in Of(last.events, "probe") : ~last.events[i][3]
    /\ \E i \in Of(last.events, "kill") : ~last.events[i][3]
    /\ last.ret = None /\ ~last.raised

\* C11: every deploy_files call on a tracked project that returns True leaves
\* last_activity of that project at the time of the deploy
C11_DeployRefreshesActivity ==
    (last.op = "deploy_files" /\ last.ret = TRUE /\ Tracked(last.project_id))
    => OGet(last_activity, last.project_id) = now

\* the writes of a call, and the first write of each batch: a batch is a
\* maximal run of writes issued without waiting for an acknowledgement
BatchStarts(ev) == {i \in Of(ev, "write") : i = 1 \/ ev[i - 1][1] # "write"}
BatchLen(ev, i) ==
    Cardinality({j \in Of(ev, "write") : j >= i /\ \A k \in i..j : ev[k][1] = "write"})

\* C12: a deploy of N files issues its writes in input order, in batches of at
\* most batch_size = 10 writes, a batch only after every earlier write has been
\* acknowledged; a deploy whose writes all succeed issues ceil(N/10) batches
\* (25 files: 3 batches of 10, 10 and 5)
C12_BatchesInOrder ==
    (last.op = "deploy_files" /\ Tracked(last.project_id))
    => LET ev == last.events
           n == last.input.n
           W == Of(ev, "write")
       IN /\ batch_size = 10
          /\ \A i, j \in W : i < j => ev[i][3] < ev[j][3]
          /\ {ev[i][3] : i \in W} = 1..Cardinality(W)
          /\ \A i \in BatchStarts(ev) :
                /\ BatchLen(ev, i) <= 10
                /\ \A j \in W : j < i =>
                      \E k \in Of(ev, "ack") : k < i /\ ev[k][3] = ev[j][3]
          /\ last.ret = TRUE =>
                /\ Cardinality(W) = n
                /\ Cardinality(BatchStarts(ev)) = (n + 9) \div 10
                /\ \A i \in BatchStarts(ev) :
                      BatchLen(ev, i) = 10 \/ (ev[i][3] - 1) + BatchLen(ev, i) = n

\* 25 files were deployed in 3 batches, the last one of 5 files
C12_Witness ==
    /\ last.op = "deploy_files" /\ Tracked(last.project_id)
    /\ last.ret = TRUE /\ last.input.n = 25
    /\ Cardinality(BatchStarts(last.events)) = 3
    /\ \E i \in BatchStarts(last.events) : BatchLen(last.events, i) = 5

\* C13: when a file write fails, deploy_files returns False, issues no write
\* of a later batch and rolls nothing back: the files acknowledged before
\* stay on the sandbox (no other remote call is made) and the project stays
\* registered with the same handle
C13_FailedWriteStep ==
    LET p == last'.project_id
        ev == last'.events
        failAt == last'.input.failAt
    IN (last'.op = "deploy_files" /\ Tracked(p) /\ failAt # 0)
       => /\ last'.ret = FALSE /\ ~last'.raised
          /\ \A i \in Of(ev, "write") :
                ev[i][3] <= ((failAt - 1) \div 10 + 1) * 10
          /\ {ev[i][3] : i \in Of(ev, "ack")} = 1..(failAt - 1)
          /\ \A i \in DOMAIN ev : ev[i][1] \in {"write", "ack", "send", "deploy_files"}
          /\ active_sandboxes' = active_sandboxes
          /\ sandbox_ids' = sandbox_ids
          /\ sandbox_processes' = sandbox_processes
          /\ last_activity' = last_activity
          /\ p \in DOMAIN sandbox_metadata'
          /\ terminated' = terminated

C13_FailedWriteAbortsWithoutRollback == [][C13_FailedWriteStep]_vars

\* a write of the second batch failed after the first batch was acknowledged
C13_Witness ==
    /\ last.op = "deploy_files" /\ Tracked(last.project_id)
    /\ last.input.failAt > 10 /\ last.input.failAt <= 20
    /\ last.ret = FALSE
    /\ Cardinality(Of(last.events, "ack")) >= 10

\* the reporter failed in the call: a send raised or found the user gone
SendFailed(ev) == \E i \in Of(ev, "send") : ev[i][3] # "sent"

\* C14: a failing progress reporter never changes the outcome of deploy_files
\* or start_servers: the result and the registry are those of the same call
\* made without a reporter; deploy_files returns True when every write
\* succeeds and start_servers reports success when the frontend is healthy
C14_ReporterStep ==
    LET p == last'.project_id
        a == last'.input
    IN /\ (last'.op = "deploy_files" /\ SendFailed(last'.events))
          => LET quiet == deploy_files(Mgr, p, a.n, a.mode, a.failAt, "none")
             IN /\ last'.ret = quiet.ret /\ ~last'.raised
                /\ active_sandboxes' = quiet.m.active_sandboxes
                /\ sandbox_metadata' = quiet.m.sandbox_metadata
                /\ (Tracked(p) /\ a.failAt = 0) => last'.ret = TRUE
       /\ (last'.op = "start_servers" /\ SendFailed(last'.events))
          => LET quiet == start_servers(Mgr, p, a.s, "none")
             IN /\ last'.ret = quiet.ret /\ ~last'.raised
                /\ active_sandboxes' = quiet.m.active_sandboxes
                /\ healthy' = quiet.m.healthy
                /\ (Tracked(p) /\ a.s.exc = "none" /\ a.s.hasFrontend /\ a.s.ready)
                   => last'.ret.success

C14_ReporterFailureIsSwallowed == [][C14_ReporterStep]_vars

\* a deploy whose first status message raised, whose later ones found the
\* user disconnected, and which returned True
C14_Witness ==
    /\ last.op = "deploy_files" /\ last.ret = TRUE
    /\ \E i, j \in Of(last.events, "send") :
          /\ i < j
          /\ last.events[i][3] = "raised"
          /\ last.events[j][3] = "not_connected"

\* C15: for a project with only a frontend manifest (no backend, no auxiliary
\* tier) install_dependencies reports frontend_installed = True,
\* backend_installed = False and success = True
C15_FrontendOnlyInstallReport ==
    (last.op = "install_dependencies"
     /\ ~last.input.hasBackend /\ ~last.input.hasAi)
    => /\ last.ret.frontend_installed
       /\ ~last.ret.backend_installed
       /\ last.ret.success
       /\ last.ret.success = last.ret.frontend_installed

\* C16: install_dependencies (template mode) issues no remote command and no
\* file-existence check, reports success = True for every project and mode,
\* and leaves the registry unchanged
C16_InstallStep ==
    (last'.op = "install_dependencies")
    => /\ last'.ret.success /\ ~last'.raised
       /\ \A i \in DOMAIN last'.events : last'.events[i][1] = "install_dependencies"
       /\ registry' = registry
       /\ terminated' = terminated /\ allocated' = allocated /\ healthy' = healthy

C16_InstallIsNoOp == [][C16_InstallStep]_vars

\* dependencies were "installed" for a tracked frontend-only project and for
\* a project that has no sandbox
C16_Witness ==
    /\ last.op = "install_dependencies" /\ last.ret.success
    /\ last.input.preview_mode = "frontend_only"
    /\ Tracked(last.project_id)
    /\ \E q \in Projects : ~Tracked(q)

\* the start commands of tier issued by the call
Runs(ev, tier) == {i \in Of(ev, "run") : ev[i][3] = tier}

\* C17: in every start_servers call the backend and auxiliary start commands
\* (for the tiers that exist) are issued before the frontend start command,
\* the frontend start command before the first health probe, and only the
\* frontend port 3000 is probed
C17_StartOrder ==
    (last.op = "start_servers")
    => LET ev == last.events
           s == last.input.s
       IN /\ \A j \in Runs(ev, "frontend") :
                /\ \A i \in Runs(ev, "backend") \cup Runs(ev, "ai_services") : i < j
                /\ s.hasBackend => Runs(ev, "backend") # {}
                /\ s.hasAi => Runs(ev, "ai_services") # {}
          /\ \A k \in Of(ev, "poll") :
                /\ \E j \in Runs(ev, "frontend") : j < k
                /\ ev[k][3] = 3000
          /\ ~s.hasBackend => Runs(ev, "backend") = {}
          /\ ~s.hasAi => Runs(ev, "ai_services") = {}

\* all three tiers were started and the frontend was probed
C17_Witness ==
    /\ last.op = "start_servers"
    /\ Runs(last.events, "backend") # {}
    /\ Runs(last.events, "ai_services") # {}
    /\ Runs(last.events, "frontend") # {}
    /\ Of(last.events, "poll") # {}

\* C18: when the frontend health poll times out without a valid HTTP status,
\* start_servers reports success = False and its result carries no preview URL
C18_PollTimeoutFails ==
    (last.op = "start_servers"
     /\ \E k \in Of(last.events, "poll") : ~last.events[k][4])
    => /\ ~last.ret.success
       /\ ~last.ret.has_url_key
       /\ last.ret.preview_url = None
       /\ ~last.raised

\* the frontend of a tracked project was started and its poll timed out
C18_Witness ==
    /\ last.op = "start_servers" /\ Tracked(last.project_id)
    /\ Runs(last.events, "frontend") # {}
    /\ \E k \in Of(last.events, "poll") : ~last.events[k][4]
    /\ ~last.ret.success

\* C19: the manager yields a non-null preview URL for a project (in the result
\* of start_servers or from get_preview_url) only if the frontend health poll
\* on the project's current sandbox handle has succeeded
C19_PreviewUrlOnlyAfterHealthy ==
    LET p == last.project_id
        url == IF last.op = "start_servers" THEN last.ret.preview_url
               ELSE IF last.op = "get_preview_url" THEN last.ret
               ELSE None
    IN url # None => Tracked(p) /\ active_sandboxes[p] \in healthy

\* C20: when the start command of an optional tier (backend, ai_services)
\* raises, start_servers still starts and polls the frontend, and reports
\* success with a preview URL if the frontend becomes healthy
C20_OptionalTierFailureDegrades ==
    (/\ last.op = "start_servers" /\ Tracked(last.project_id)
     /\ last.input.s.exc \in {"backend", "ai_services"}
     /\ last.input.s.hasFrontend)
    => /\ Runs(last.events, "frontend") # {}
       /\ Of(last.events, "poll") # {}
       /\ (last.input.s.ready /\ last.input.s.hostOk)
          => last.ret.success /\ last.ret.preview_url # None

\* C21: after cleanup_inactive_sandboxes, every session whose last_activity
\* was older than the TTL when the sweep began has been terminated remotely
\* and removed from the registry, and no session within the TTL was removed
C21_SweepStep ==
    (last'.op = "cleanup_inactive_sandboxes")
    => \A q \in DOMAIN active_sandboxes :
          IF IsInactive(OGet(last_activity, q), now')
          THEN /\ active_sandboxes[q] \in terminated'
               /\ NoEntries(q)
          ELSE EntriesUnchanged(q)

C21_SweepRemovesExactlyTheStale == [][C21_SweepStep]_vars

\* the paths written by the last call
Written(ev) == {ev[i][3] : i \in Of(ev, "write")}

\* C22: update_files_hot_reload uploads exactly the paths whose incoming
\* content differs from the sandbox's current content, a path not yet present
\* in the sandbox counting as differing; with a file map identical to the
\* current content it issues no write and returns True
C22_HotReloadUploadsTheDiff ==
    (/\ last.op = "update_files_hot_reload" /\ Tracked(last.project_id)
     /\ last.input.failPath \notin Written(last.events))
    => LET updated == last.input.updated
           current == last.input.current
           differing == {q \in DOMAIN updated : current[q] # updated[q]}
       IN /\ Written(last.events) = differing
          /\ last.ret = TRUE

\* C23: when a load-bearing sandbox stage fails during a generation run (the
\* creation raises, a write of deploy_files fails, a stage times out or
\* start_servers reports failure), the run neither completes with the URL
\* of a sandbox nor leaves the session stored as active.
StageFailed(a, ev) ==
    \/ ~a.createOk
    \/ a.failAt # 0
    \/ a.timeout \in {"deploy", "start"}
    \/ \E i \in Of(ev, "start_servers") : ~ev[i][3]

C23_FailedStageIsSurfaced ==
    (last.op = "handle_code_generation" /\ StageFailed(last.input, last.events))
    => /\ last.ret = Placeholder
       /\ sandbox_sessions[last.project_id].status # "active"

\* C25: a create_sandbox call starts one eviction when registering the
\* project would make the number of tracked handles exceed max_sandboxes, and
\* starts none when the resulting number stays within max_sandboxes (in
\* particular when the project is already tracked).
C25_CreateStep ==
    (last'.op = "create_sandbox")
    => LET resulting == Cardinality(DOMAIN active_sandboxes \cup {last'.project_id})
           evictions == Cardinality(Of(last'.events, "evict"))
       IN evictions = IF resulting > max_sandboxes THEN 1 ELSE 0

C25_EvictsOnlyWhenNeeded == [][C25_CreateStep]_vars

\* C28: every remote sandbox that was allocated and has not been terminated
\* is the tracked handle of some project.
C28_NoLiveSandboxIsLost ==
    \A h \in 1..allocated :
        h \notin terminated => \E p \in DOMAIN active_sandboxes : active_sandboxes[p] = h

\* C29: when get_active_sandbox(p) returns None, p holds no handle in the
\* registry afterwards.
C29_NoneMeansUntracked ==
    (last.op = "get_active_sandbox" /\ last.ret = None)
    => last.project_id \notin DOMAIN active_sandboxes

\* C26: the health poll probes on every iteration, ends with True at the
\* first probe that shows an HTTP status 200..599, retries a raising or
\* failing probe without logging it, ends with False only once the timeout
\* has elapsed, and always ends.
StatusTexts ==
    {<<a, b, c>> : a \in {"2", "3", "4", "5"},
                   b \in {Digits[i] : i \in DOMAIN Digits},
                   c \in {Digits[i] : i \in DOMAIN Digits}}

ShowsStatus(result) ==
    /\ ~result.raises
    /\ result.exit_code = 0
    /\ \E i \in DOMAIN result.stdout, j \in DOMAIN result.stdout :
          /\ SubSeq(result.stdout, i, j) \in StatusTexts
          /\ \A k \in DOMAIN result.stdout \ (i..j) : result.stdout[k] \in Whitespace

C26_Counted ==
    poll.pc \in {"test", "sleep", "done"} => poll.probes = poll.counter

C26_PollStep ==
    /\ (poll.pc = "test" /\ poll' # poll)
       => \/ poll'.pc = "probe" /\ poll.elapsed < PollTimeout
          \/ poll'.pc = "done" /\ ~poll'.ret /\ poll.elapsed >= PollTimeout
    /\ (poll.pc = "probe" /\ poll' # poll)
       => /\ poll'.probes = poll.probes + 1
          /\ IF ShowsStatus(poll'.result)
             THEN poll'.pc = "done" /\ poll'.ret
             ELSE poll'.pc = "sleep"
          /\ (poll'.result.raises \/ poll'.result.exit_code # 0) => poll'.log = {}
    /\ (poll.pc = "sleep" /\ poll' # poll) => poll'.pc = "test"

LiveHandles == {active_sandboxes[p] : p \in DOMAIN active_sandboxes} \ terminated

C24_CapacityHoldsUnderInterleaving ==
    Cardinality(LiveHandles) <= max_sandboxes

\* C27: the five registry maps always have the same project keys, also when
\* operations on one project interleave at their awaits, so the LRU
\* candidate of last_activity is a project that holds a handle.
C27_MapsShareTheirKeys ==
    /\ DOMAIN sandbox_ids = DOMAIN active_sandboxes
    /\ DOMAIN sandbox_processes = DOMAIN active_sandboxes
    /\ DOMAIN sandbox_metadata = DOMAIN active_sandboxes
    /\ OKeys(last_activity) = DOMAIN active_sandboxes
    /\ last_activity # <<>> => MinKey(last_activity) \in DOMAIN active_sandboxes

\* C30: the sweep starts the teardown of a project only when that project's
\* last_activity is older than the TTL at that moment.
C30_TeardownStarts(i) ==
    /\ tasks'[i].op = "cleanup_inactive_sandboxes"
    /\ tasks'[i].pc = "kill"
    /\ tasks'[i] # tasks[i]

C30_SweepStartStep ==
    \A i \in DOMAIN tasks :
        (C30_TeardownStarts(i) /\ tasks'[i].target \in OKeys(last_activity'))
        => IsInactive(OGet(last_activity', tasks'[i].target), now')

C30_SweepSparesRefreshedSessions == [][C30_SweepStartStep]_vars

====
